---- MODULE Spec2Model ----
(***************************************************************************)
(* Model of kvs (kavirajk/kvs): a key-value store over an append-only      *)
(* command log (src/src/kv.rs).  The log file and the compaction temp      *)
(* file are sequences of JSON-encoded commands; byte offsets are computed  *)
(* from the encoded length of each command.  A `set` call is split into    *)
(* the steps of its code (size check, compaction open / copy loop /        *)
(* rename, append) so that I/O failures and intermediate file states are   *)
(* observable; no other call can run between those steps.  I/O failures   *)
(* are injected at the opens of set and remove and at every step of        *)
(* compact; a failed write leaves nothing of the command it was writing.   *)
(***************************************************************************)
EXTENDS Integers, Sequences, FiniteSets, TLC

(* ---------------- bounds of the exploration ---------------- *)
MaxRecords == 3        \* a call that appends is only started below this log length
MaxFaults  == 1        \* number of injected I/O failures
MaxProbed  == 2        \* longest log on which lookups through any index are taken

(* ---------------- program constants ---------------- *)
Threshold == 30720     \* (1 << 10) * 30, kv.rs:86

(* ---------------- input domains ---------------- *)
\* Strings are a character repeated len times; only the length enters the
\* encoding.  BigLen makes one Set record exactly as long as the threshold.
BigLen == 30704
NoVal  == [ch |-> "", len |-> 0]
Keys   == {"a", "b"}
Values == {[ch |-> "x", len |-> 1], [ch |-> "y", len |-> BigLen]}
KeyLen(k) == 1

(* ---------------- KvCommand and its serde_json encoding ---------------- *)
SetCmd(k, v)  == [op |-> "Set", key |-> k, val |-> v]
RemoveCmd(k)  == [op |-> "Remove", key |-> k, val |-> NoVal]

\* {"Set":["k","v"]} is 15 bytes plus both strings; {"Remove":"k"} is 13 plus k.
EncodedLen(cmd) ==
  IF cmd.op = "Set" THEN 15 + KeyLen(cmd.key) + cmd.val.len
                    ELSE 13 + KeyLen(cmd.key)

RECURSIVE FileSize(_)
FileSize(f) == IF f = <<>> THEN 0 ELSE EncodedLen(Head(f)) + FileSize(Tail(f))

\* byte offset at which the i-th command of f begins
StartOf(f, i) == FileSize(SubSeq(f, 1, i - 1))

\* variant: the comparison with the threshold is not strict
AtOrOverThreshold(f) == FileSize(f) >= Threshold
\* f.metadata()?.len() > (1 << 10) * 30
OverThreshold(f) == FileSize(f) > Threshold

\* variant: the position of a file just opened for append, without the seek
SeekEndUnsought(f) == 0
\* f.seek(SeekFrom::End(0))
SeekEnd(f) == FileSize(f)

EofMark     == [op |-> "EOF", key |-> "", val |-> NoVal]
CorruptMark == [op |-> "Corrupt", key |-> "", val |-> NoVal]

\* seek to off and decode one command with a serde_json stream deserializer
ReadAt(f, off) ==
  IF \E i \in 1..Len(f) : StartOf(f, i) = off
    THEN f[CHOOSE i \in 1..Len(f) : StartOf(f, i) = off]
    ELSE IF off >= FileSize(f) THEN EofMark ELSE CorruptMark

(* ---------------- HashMap<String, usize> ---------------- *)
EmptyIndex == [k \in {} |-> 0]
IndexInsert(idx, k, off) ==
  [x \in (DOMAIN idx) \cup {k} |-> IF x = k THEN off ELSE idx[x]]
IndexRemove(idx, k) == [x \in (DOMAIN idx) \ {k} |-> idx[x]]

\* A HashMap iterates in an order fixed by its seed and the keys it holds:
\* the possible orders are the permutations of the keys.  The order of a map
\* is drawn when the map comes to hold two keys or more (until then it
\* cannot be observed) and kept while no key is added.
KeyOrders ==
  {s \in [1..Cardinality(Keys) -> Keys] : \A k \in Keys : \E i \in DOMAIN s : s[i] = k}
NoOrder == CHOOSE s \in KeyOrders : TRUE
OrdersOf(idx) == IF Cardinality(DOMAIN idx) < 2 THEN {NoOrder} ELSE KeyOrders
\* the next key the iterator of a map with order ord yields among the keys in ks
FirstIn(ord, ks) ==
  ord[CHOOSE i \in DOMAIN ord : ord[i] \in ks /\ \A j \in 1..(i - 1) : ord[j] \notin ks]

(* ---------------- results returned to the caller ---------------- *)
Ok          == [tag |-> "Ok", val |-> NoVal]
None        == [tag |-> "None", val |-> NoVal]
Some(v)     == [tag |-> "Some", val |-> v]
KeyNotFound == [tag |-> "KeyNotFound", val |-> NoVal]
IoError     == [tag |-> "IoError", val |-> NoVal]
ErrNoValue  == [tag |-> "ValueNotFound", val |-> NoVal]
ErrDecode   == [tag |-> "DecodeError", val |-> NoVal]
ErrRemoveAt == [tag |-> "RemoveAtOffset", val |-> NoVal]
Pending     == [tag |-> "Pending", val |-> NoVal]   \* the call has not returned yet

\* variant: an entry whose offset holds no Set command is reported as absent
GetResultLenient(idx, f, k) ==
  IF k \notin DOMAIN idx THEN None
  ELSE LET cmd == ReadAt(f, idx[k]) IN
       IF cmd.op = "Set" THEN Some(cmd.val) ELSE None

\* KvStore::get as a function of the index and the log file
GetResult(idx, f, k) ==
  IF k \notin DOMAIN idx THEN None
  ELSE LET cmd == ReadAt(f, idx[k]) IN
       CASE cmd.op = "EOF"     -> ErrNoValue
         [] cmd.op = "Corrupt" -> ErrDecode
         [] cmd.op = "Set"     -> Some(cmd.val)
         [] OTHER              -> ErrRemoveAt

\* KvStore::fill_index: replay of the log; `offset` is advanced only in the
\* Set arm of the match.
RECURSIVE FillIndex(_, _, _, _)
FillIndex(f, i, idx, offset) ==
  IF i > Len(f) THEN idx
  ELSE IF f[i].op = "Set"
         THEN FillIndex(f, i + 1, IndexInsert(idx, f[i].key, offset), StartOf(f, i + 1))
         ELSE FillIndex(f, i + 1, IndexRemove(idx, f[i].key), offset)

(* ---------------- state ---------------- *)
VARIABLES
  logFile,     \* content of the file at self.log
  tmpFile,     \* content of kvs.comp (<<>> when absent or empty)
  index,       \* self.index
  order,       \* iteration order of the HashMap behind self.index
  pc,          \* position inside the running call, "idle" between calls
  op, key, val,\* the running (or last) call and its arguments
  tmap, todo, new_offset,  \* locals of compact
  result,      \* what the last call returned
  expected,    \* history: key -> value of the last successful set, NoVal if removed
  preLog, preIndex,  \* history: log and index when the call started
  preTmp,      \* history: kvs.comp when the call started
  compacted,   \* history: the running (or last) set call completed a compaction
  faults,      \* history: number of I/O failures so far
  reopened     \* history: the store was dropped and opened again

vars == <<logFile, tmpFile, index, order, pc, op, key, val, tmap, todo, new_offset,
          result, expected, preLog, preIndex, preTmp, compacted, faults, reopened>>

files  == <<logFile, tmpFile>>
locals == <<tmap, todo, new_offset>>

\* state after KvStore::open on a fresh path
Init ==
  /\ logFile = <<>> /\ tmpFile = <<>> /\ index = EmptyIndex
  /\ order \in OrdersOf(index)
  /\ pc = "idle" /\ op = "open" /\ key = "a" /\ val = NoVal
  /\ tmap = EmptyIndex /\ todo = {} /\ new_offset = 0
  /\ result = Ok
  /\ expected = [k \in Keys |-> NoVal]
  /\ preLog = <<>> /\ preIndex = EmptyIndex /\ preTmp = <<>>
  /\ compacted = FALSE /\ faults = 0 /\ reopened = FALSE

Begin(o, k, v) ==
  /\ op' = o /\ key' = k /\ val' = v
  /\ preLog' = logFile /\ preIndex' = index /\ preTmp' = tmpFile
  /\ compacted' = FALSE

Return(r) ==
  /\ pc' = "idle" /\ result' = r
  /\ tmap' = EmptyIndex /\ todo' = {} /\ new_offset' = 0

Fault == faults < MaxFaults /\ faults' = faults + 1

(* ---------------- KvStore::set ---------------- *)
\* kv.rs:85-88: open the log, compare its length with the threshold
SetStart(k, v) ==
  /\ pc = "idle"
  /\ Len(logFile) < MaxRecords \/ OverThreshold(logFile)
  /\ Begin("set", k, v)
  /\ pc' = IF OverThreshold(logFile) THEN "compact" ELSE "append"
  /\ result' = Pending
  /\ UNCHANGED <<files, index, order, locals, expected, faults, reopened>>

\* kv.rs:85: the open fails
SetOpenFail(k, v) ==
  /\ pc = "idle"
  /\ Fault
  /\ Begin("set", k, v)
  /\ Return(IoError)
  /\ UNCHANGED <<files, index, order, expected, reopened>>

\* variant: the log is opened with truncate(true) instead of append(true)
SetAppendTruncates ==
  /\ pc = "append"
  /\ logFile' = <<SetCmd(key, val)>>
  /\ index' = IndexInsert(index, key, 0)
  /\ order' \in (IF key \in DOMAIN index THEN {order} ELSE OrdersOf(index'))
  /\ expected' = [expected EXCEPT ![key] = val]
  /\ Return(Ok)
  /\ UNCHANGED <<tmpFile, op, key, val, preLog, preIndex, preTmp, compacted, faults, reopened>>

\* variant: the offset is taken after the write instead of before it
SetAppendOffsetAfterWrite ==
  /\ pc = "append"
  /\ logFile' = Append(logFile, SetCmd(key, val))
  /\ index' = IndexInsert(index, key, SeekEnd(logFile'))
  /\ order' \in (IF key \in DOMAIN index THEN {order} ELSE OrdersOf(index'))
  /\ expected' = [expected EXCEPT ![key] = val]
  /\ Return(Ok)
  /\ UNCHANGED <<tmpFile, op, key, val, preLog, preIndex, preTmp, compacted, faults, reopened>>

\* kv.rs:92-100: append the command at the end of the log, index its offset
SetAppend ==
  /\ pc = "append"
  /\ LET offset == SeekEnd(logFile) IN
       /\ logFile' = Append(logFile, SetCmd(key, val))
       /\ index' = IndexInsert(index, key, offset)
  /\ order' \in (IF key \in DOMAIN index THEN {order} ELSE OrdersOf(index'))
  /\ expected' = [expected EXCEPT ![key] = val]
  /\ Return(Ok)
  /\ UNCHANGED <<tmpFile, op, key, val, preLog, preIndex, preTmp, compacted, faults, reopened>>

\* kv.rs:92: the open for append fails
SetAppendFail ==
  /\ pc = "append"
  /\ Fault
  /\ Return(IoError)
  /\ UNCHANGED <<files, index, order, op, key, val, expected, preLog, preIndex, preTmp, compacted, reopened>>

(* ---------------- KvStore::compact ---------------- *)
\* kv.rs:199-213: open kvs.comp with create + append (existing content is
\* kept), open the log, new_offset = 0
CompactOpen ==
  /\ pc = "compact"
  /\ pc' = "copy"
  /\ tmap' = EmptyIndex /\ todo' = DOMAIN index /\ new_offset' = 0
  /\ UNCHANGED <<files, index, order, op, key, val, result, expected, preLog, preIndex,
                 preTmp, compacted, faults, reopened>>

\* kv.rs:207 / 211: one of the opens fails
CompactOpenFail ==
  /\ pc = "compact"
  /\ Fault
  /\ Return(IoError)
  /\ UNCHANGED <<files, index, order, op, key, val, expected, preLog, preIndex, preTmp, compacted, reopened>>

\* variant: the loop writes to the log's own path instead of kvs.comp
CompactCopyInPlace(k) ==
  /\ pc = "copy" /\ todo # {} /\ k = FirstIn(order, todo)
  /\ LET cmd == ReadAt(logFile, index[k]) IN
       /\ cmd.op \in {"Set", "Remove"}
       /\ logFile' = Append(logFile, cmd)
  /\ tmap' = IndexInsert(tmap, k, new_offset)
  /\ new_offset' = SeekEnd(logFile')
  /\ todo' = todo \ {k}
  /\ UNCHANGED <<tmpFile, index, order, pc, op, key, val, result, expected, preLog, preIndex,
                 preTmp, compacted, faults, reopened>>

\* kv.rs:215-225: one iteration of the loop over self.index, in HashMap order
CompactCopy(k) ==
  /\ pc = "copy" /\ todo # {} /\ k = FirstIn(order, todo)
  /\ LET cmd == ReadAt(logFile, index[k]) IN
       /\ cmd.op \in {"Set", "Remove"}
       /\ tmpFile' = Append(tmpFile, cmd)
  /\ tmap' = IndexInsert(tmap, k, new_offset)
  /\ new_offset' = SeekEnd(tmpFile')
  /\ todo' = todo \ {k}
  /\ UNCHANGED <<logFile, index, order, pc, op, key, val, result, expected, preLog, preIndex,
                 preTmp, compacted, faults, reopened>>

\* kv.rs:216 / 221 / 224: a seek or write of the loop fails; what was written
\* to kvs.comp so far stays there
CompactWriteFail ==
  /\ pc = "copy" /\ todo # {}
  /\ Fault
  /\ Return(IoError)
  /\ UNCHANGED <<files, index, order, op, key, val, expected, preLog, preIndex, preTmp, compacted, reopened>>

\* variant: the index is swapped but kvs.comp is never renamed over the log
CompactRenameSkipped ==
  /\ pc = "copy" /\ todo = {}
  /\ index' = tmap
  /\ order' \in OrdersOf(tmap)
  /\ compacted' = TRUE
  /\ pc' = "append"
  /\ tmap' = EmptyIndex /\ todo' = {} /\ new_offset' = 0
  /\ UNCHANGED <<files, op, key, val, result, expected, preLog, preIndex, preTmp, faults, reopened>>

\* kv.rs:228-231: rename kvs.comp over the log, then swap the index
CompactRename ==
  /\ pc = "copy" /\ todo = {}
  /\ logFile' = tmpFile /\ tmpFile' = <<>>
  /\ index' = tmap
  /\ order' \in OrdersOf(tmap)      \* tmap is a new HashMap (kv.rs:209)
  /\ compacted' = TRUE
  /\ pc' = "append"
  /\ tmap' = EmptyIndex /\ todo' = {} /\ new_offset' = 0
  /\ UNCHANGED <<op, key, val, result, expected, preLog, preIndex, preTmp, faults, reopened>>

\* variant: self.index = tmap is executed before the rename is attempted
CompactRenameFailIndexSwapped ==
  /\ pc = "copy" /\ todo = {}
  /\ Fault
  /\ index' = tmap
  /\ Return(IoError)
  /\ UNCHANGED <<files, order, op, key, val, expected, preLog, preIndex, preTmp, compacted, reopened>>

\* kv.rs:228: the rename fails
CompactRenameFail ==
  /\ pc = "copy" /\ todo = {}
  /\ Fault
  /\ Return(IoError)
  /\ UNCHANGED <<files, index, order, op, key, val, expected, preLog, preIndex, preTmp, compacted, reopened>>

(* ---------------- KvStore::remove ---------------- *)
\* variant: the Remove command is written before the index is consulted
RemoveWritesFirst(k) ==
  /\ pc = "idle"
  /\ Begin("remove", k, NoVal)
  /\ Len(logFile) < MaxRecords
  /\ logFile' = Append(logFile, RemoveCmd(k))
  /\ index' = IndexRemove(index, k)
  /\ expected' = [expected EXCEPT ![k] = NoVal]
  /\ order' \in (IF Cardinality(DOMAIN index') < 2 THEN {NoOrder} ELSE {order})
  /\ Return(IF k \notin DOMAIN index THEN KeyNotFound ELSE Ok)
  /\ UNCHANGED <<tmpFile, faults, reopened>>

\* kv.rs:146-167
Remove(k) ==
  /\ pc = "idle"
  /\ Begin("remove", k, NoVal)
  /\ IF k \notin DOMAIN index
       THEN /\ Return(KeyNotFound)
            /\ UNCHANGED <<files, index, order, expected>>
       ELSE /\ Len(logFile) < MaxRecords
            /\ logFile' = Append(logFile, RemoveCmd(k))
            /\ index' = IndexRemove(index, k)
            /\ order' \in (IF Cardinality(DOMAIN index') < 2 THEN {NoOrder} ELSE {order})
            /\ expected' = [expected EXCEPT ![k] = NoVal]
            /\ Return(Ok)
            /\ UNCHANGED tmpFile
  /\ UNCHANGED <<faults, reopened>>

\* kv.rs:160: the open for append fails
RemoveOpenFail(k) ==
  /\ pc = "idle" /\ k \in DOMAIN index
  /\ Fault
  /\ Begin("remove", k, NoVal)
  /\ Return(IoError)
  /\ UNCHANGED <<files, index, order, expected, reopened>>

(* ---------------- KvStore::get ---------------- *)
\* variant: a lookup that fails to decode a Set drops the entry from the index
GetHealsIndex(k) ==
  /\ pc = "idle"
  /\ Begin("get", k, NoVal)
  /\ Return(GetResult(index, logFile, k))
  /\ index' = IF GetResult(index, logFile, k).tag \in {"None", "Some"}
                THEN index ELSE IndexRemove(index, k)
  /\ order' \in (IF Cardinality(DOMAIN index') < 2 THEN {NoOrder} ELSE {order})
  /\ UNCHANGED <<files, expected, faults, reopened>>

\* kv.rs:106-143
Get(k) ==
  /\ pc = "idle"
  /\ Begin("get", k, NoVal)
  /\ Return(GetResult(index, logFile, k))
  /\ UNCHANGED <<files, index, order, expected, faults, reopened>>

(* ---------------- drop the store, KvStore::open on the same path ---------------- *)
Reopen ==
  /\ pc = "idle"
  /\ reopened' = TRUE
  /\ Begin("open", "a", NoVal)
  /\ index' = FillIndex(logFile, 1, EmptyIndex, 0)
  /\ order' \in OrdersOf(index')      \* index: HashMap::new() (kv.rs:73)
  /\ Return(Ok)
  /\ UNCHANGED <<files, expected, faults>>

Next ==
  \/ \E k \in Keys, v \in Values : SetStart(k, v)
  \/ \E k \in Keys, v \in Values : SetOpenFail(k, v)
  \/ SetAppend
  \/ SetAppendFail
  \/ CompactOpen
  \/ CompactOpenFail
  \/ \E k \in Keys : CompactCopy(k)
  \/ CompactWriteFail
  \/ CompactRename
  \/ CompactRenameFail
  \/ \E k \in Keys : Remove(k)
  \/ \E k \in Keys : RemoveOpenFail(k)
  \/ \E k \in Keys : Get(k)
  \/ Reopen

Spec == Init /\ [][Next]_vars

(* ---------------- lookups through an arbitrary index ---------------- *)
\* KvStore.index is a pub field and the log is a plain file: get is also
\* examined on every short log with every index whose offsets are the start
\* of a command, a byte inside a command, the end of the file or beyond it.
Commands == {SetCmd(k, v) : k \in Keys, v \in Values} \cup {RemoveCmd(k) : k \in Keys}
ProbedLogs == UNION {[1..n -> Commands] : n \in 0..MaxProbed}
ProbedOffsets(f) ==
  {StartOf(f, i) : i \in 1..(Len(f) + 1)}
    \cup {StartOf(f, i) + 1 : i \in 1..(Len(f) + 1)}

InitProbe ==
  /\ logFile \in ProbedLogs
  /\ index \in UNION {[ks -> ProbedOffsets(logFile)] : ks \in SUBSET Keys}
  /\ order \in OrdersOf(index)
  /\ tmpFile = <<>>
  /\ pc = "idle" /\ op = "open" /\ key = "a" /\ val = NoVal
  /\ tmap = EmptyIndex /\ todo = {} /\ new_offset = 0
  /\ result = Ok
  /\ expected = [k \in Keys |-> NoVal]
  /\ preLog = logFile /\ preIndex = index /\ preTmp = <<>>
  /\ compacted = FALSE /\ faults = 0 /\ reopened = FALSE

NextProbe == \E k \in Keys : Get(k)

SpecProbe == InitProbe /\ [][NextProbe]_vars

\* compact never hits its unwrap()s: every offset it reads holds a command
CompactNeverPanics ==
  pc = "copy" => \A k \in todo : ReadAt(logFile, index[k]).op \in {"Set", "Remove"}

(* ======================= properties ======================= *)
AtRest == pc = "idle"
Lookup(k) == GetResult(index, logFile, k)
LookupBefore(k) == GetResult(preIndex, preLog, k)
ExpectedGet(k) == IF expected[k] = NoVal THEN None ELSE Some(expected[k])

\* C1: in a session on a fresh path in which every call so far succeeded,
\* get(k) returns the value of the latest set(k, v) not followed by
\* remove(k), and None when k was never set or was removed last; this
\* includes sessions in which set compacted the log.
C1_GetReturnsLatestSet ==
  (AtRest /\ faults = 0 /\ ~reopened) => \A k \in Keys : Lookup(k) = ExpectedGet(k)

\* a compacting set has just returned and the other key is still live
C1_Witness ==
  /\ AtRest /\ faults = 0 /\ ~reopened
  /\ op = "set" /\ result = Ok /\ compacted
  /\ \E k \in Keys : k # key /\ expected[k] # NoVal /\ Lookup(k) = Some(expected[k])

\* C2: dropping the store and opening it again on the same path leaves
\* get(k) unchanged for every key k.
C2_ReopenPreservesGet ==
  [][(AtRest /\ pc' = "idle" /\ op' = "open")
       => \A k \in Keys : GetResult(index', logFile', k) = Lookup(k)]_vars

\* C3: after a set call that compacted, every other key that get returned a
\* value for before the call returns the same value, the key that was set
\* returns the new value, and no other key that returned None is visible.
C3_CompactionLosesNothing ==
  (AtRest /\ op = "set" /\ result = Ok /\ compacted) =>
     /\ Lookup(key) = Some(val)
     /\ \A k \in Keys \ {key} :
          /\ LookupBefore(k).tag = "Some" => Lookup(k) = LookupBefore(k)
          /\ LookupBefore(k) = None => Lookup(k) = None

\* C4: remove(k) for a key that is not in the index returns KeyNotFound and
\* leaves the index and the log file as they were.
C4_RemoveMissingKey ==
  [][\A k \in Keys :
       (AtRest /\ pc' = "idle" /\ op' = "remove" /\ key' = k /\ k \notin DOMAIN index)
         => (result' = KeyNotFound /\ index' = index /\ logFile' = logFile)]_vars

\* remove of a key that was removed before, on a log that holds commands
C4_Witness ==
  /\ AtRest /\ op = "remove" /\ result = KeyNotFound
  /\ \E i \in 1..Len(logFile) : logFile[i] = RemoveCmd(key)

CompactionFailureStep ==
  (pc \in {"compact", "copy"} /\ pc' = "idle")
       => ( /\ result'.tag = "IoError"
            /\ logFile' = preLog /\ index' = preIndex
            /\ preLog' = preLog /\ preIndex' = preIndex
            /\ expected' = expected )

CompactionStep ==
  pc \in {"compact", "copy"}
       => ( /\ logFile = preLog
            /\ \/ logFile' = preLog
               \/ /\ pc' = "append" /\ logFile' = tmpFile
                  /\ DOMAIN tmap = DOMAIN index
                  /\ Len(tmpFile) >= Cardinality(DOMAIN index) )

\* C6: at every step of a compaction the file at the log path is the
\* complete log from before the compaction, or (after the rename) the
\* complete new file: the written kvs.comp with a command for every key of
\* the index.
C6_AtomicReplacement == [][CompactionStep]_vars

\* in the middle of the copy loop: kvs.comp partly written, log untouched
C6_Witness ==
  pc = "copy" /\ todo # {} /\ tmpFile # <<>> /\ logFile = preLog /\ logFile # <<>>

\* C7: after a successful set(k, v) the index entry of k is the offset at
\* which the appended command begins, that is the end of the log before the
\* append (after the compaction of the same call, if any), and the command
\* at that offset is Set(k, v); the first set on an empty log stores 0.
C7_SetIndexesAppendedRecord ==
  (AtRest /\ op = "set" /\ result = Ok) =>
     /\ Len(logFile) >= 1
     /\ logFile[Len(logFile)] = SetCmd(key, val)
     /\ key \in DOMAIN index
     /\ index[key] = StartOf(logFile, Len(logFile))
     /\ ReadAt(logFile, index[key]) = SetCmd(key, val)
     /\ ~compacted => (logFile = Append(preLog, SetCmd(key, val))
                        /\ index[key] = FileSize(preLog))
     /\ preLog = <<>> => index[key] = 0

\* an overwrite: the key had an entry before and now has the later offset
C7_Witness ==
  /\ AtRest /\ op = "set" /\ result = Ok
  /\ key \in DOMAIN preIndex /\ ~compacted
  /\ index[key] > preIndex[key]

GetStep ==
  (AtRest /\ pc' = "idle" /\ op' = "get")
       => ( /\ index' = index /\ logFile' = logFile /\ tmpFile' = tmpFile
            /\ result' = Lookup(key')
            /\ result' = GetResult(index', logFile', key') )

\* C8: get(k) changes neither the index nor the files, whatever it returns,
\* so a get(k) repeated right after it returns the same result.
C8_GetIsPureRead == [][GetStep]_vars

\* a get that returned an error
C8_Witness ==
  AtRest /\ op = "get" /\ result.tag \notin {"None", "Some"} /\ key \in DOMAIN index

\* C9: between calls and right after a compaction, every (key, offset) entry
\* of the index points at the first byte of a Set command for that key in
\* the current log file.
C9_IndexPointsAtOwnSet ==
  pc \in {"idle", "append"} =>
     \A k \in DOMAIN index :
        /\ ReadAt(logFile, index[k]).op = "Set"
        /\ ReadAt(logFile, index[k]).key = k

\* C10: between calls and right after a compaction, a key is in the index
\* if and only if the last command for that key in the log file is a Set.
C10_IndexMembership ==
  pc \in {"idle", "append"} =>
     \A k \in Keys :
        k \in DOMAIN index <=>
          \E i \in 1..Len(logFile) :
             /\ logFile[i] = SetCmd(k, logFile[i].val)
             /\ \A j \in (i + 1)..Len(logFile) : logFile[j].key # k

\* the state right after compact returned Ok inside set, before the append
JustCompacted == pc = "append" /\ compacted

\* C11: right after a successful compaction the log file holds exactly one
\* command per key of the index, each a Set command with that key's current
\* value, and nothing else; so the log is no longer than before compaction.
C11_CompactedLogIsLiveSets ==
  JustCompacted =>
     /\ Len(logFile) = Cardinality(DOMAIN index)
     /\ \A i \in 1..Len(logFile) :
           /\ logFile[i].key \in DOMAIN index
           /\ logFile[i] = SetCmd(logFile[i].key, expected[logFile[i].key])
     /\ \A i, j \in 1..Len(logFile) : logFile[i].key = logFile[j].key => i = j
     /\ FileSize(logFile) <= FileSize(preLog)

\* one step of the program, as far as running compaction goes
CompactionPolicyStep ==
  /\ (AtRest /\ op' = "set" /\ pc' # "idle") =>
        (pc' = "compact" <=> FileSize(logFile) > Threshold)
  /\ pc' = "compact" => AtRest
  /\ pc' \in {"compact", "copy"} =>
        op' = "set" /\ ~compacted' /\ logFile' = preLog' /\ FileSize(preLog') > Threshold
  /\ pc = "append" => pc' = "idle"
  /\ op' \in {"get", "remove", "open"} =>
        pc' = "idle" /\ ~compacted' /\ tmpFile' = tmpFile

\* C12: a set call runs compaction if and only if the log file is strictly
\* longer than the threshold of 30 KiB when the call starts; it runs it at
\* most once and before it appends its own command; get, remove and open
\* never run compaction.
C12_CompactionTriggerPolicy == [][CompactionPolicyStep]_vars

\* a set that started on a log exactly as long as the threshold is about to
\* append without having run compaction
C12_Witness ==
  pc = "append" /\ ~compacted /\ FileSize(preLog) = Threshold

RECURSIVE KeptSize(_, _, _)
\* the bytes compact copies for the keys ks: the command at each one's offset
KeptSize(idx, f, ks) ==
  IF ks = {} THEN 0
  ELSE LET k == CHOOSE x \in ks : TRUE
       IN  EncodedLen(ReadAt(f, idx[k])) + KeptSize(idx, f, ks \ {k})

\* a set call that ran compaction has returned Ok
CompactingSetReturned == AtRest /\ op = "set" /\ result = Ok /\ compacted

\* C13 as stated: after a set call that ran compaction returns, the log file
\* is back at or below the threshold, so the next set call does not run
\* compaction again.
C13_OncePerCrossing ==
  CompactingSetReturned => FileSize(logFile) <= Threshold

\* C13 amended: after a set call that ran compaction returns, the log file is
\* as long as what kvs.comp held when the call started, plus the command at
\* the offset of each key of the index, plus the one appended command; it is
\* at or below the threshold exactly when that sum is.
C13_LogAfterCompactingSet ==
  CompactingSetReturned =>
     FileSize(logFile) =
        FileSize(preTmp) + KeptSize(preIndex, preLog, DOMAIN preIndex)
          + EncodedLen(SetCmd(key, val))

\* a set call that ran compaction returned with the log still over the
\* threshold, no earlier compaction attempt having failed
C13_Witness ==
  CompactingSetReturned /\ preTmp = <<>> /\ FileSize(logFile) > Threshold

\* f is the beginning of g
IsPrefix(f, g) == Len(f) <= Len(g) /\ SubSeq(g, 1, Len(f)) = f

\* one step of the program, as far as the growth of the log goes
AppendOnlyStep ==
  /\ (pc = "append" /\ pc' = "idle" /\ result' = Ok) =>
        logFile' = Append(logFile, SetCmd(key, val))
  /\ (AtRest /\ pc' = "idle" /\ op' = "remove" /\ result' = Ok) =>
        logFile' = Append(logFile, RemoveCmd(key'))
  /\ ~(pc = "copy" /\ pc' = "append") => IsPrefix(logFile, logFile')

\* C14: outside compaction the log only grows at its end: a successful set
\* appends exactly one Set command to the log as it stands after any
\* compaction run by the call, a successful remove appends exactly one
\* Remove command, and what the log held before is a prefix of what it holds
\* after.
C14_AppendOnlyOutsideCompaction == [][AppendOnlyStep]_vars

\* a successful remove on a log that already held two commands
C14_Witness ==
  AtRest /\ op = "remove" /\ result = Ok /\ Len(preLog) >= 2
    /\ logFile = Append(preLog, RemoveCmd(key))

\* the index entry of k points at something that is not a Set command
Dangling(k) == k \in DOMAIN index /\ ReadAt(logFile, index[k]).op # "Set"

\* one step of the program, as far as a lookup through a dangling entry goes
FailFastGetStep ==
  \A k \in Keys :
     (AtRest /\ pc' = "idle" /\ op' = "get" /\ key' = k /\ Dangling(k)) =>
        /\ result' = ( CASE ReadAt(logFile, index[k]).op = "Remove"  -> ErrRemoveAt
                         [] ReadAt(logFile, index[k]).op = "Corrupt" -> ErrDecode
                         [] ReadAt(logFile, index[k]).op = "EOF"     -> ErrNoValue )
        /\ result'.tag \notin {"None", "Some", "Ok"}
        /\ index' = index /\ logFile' = logFile /\ tmpFile' = tmpFile

\* C15: when the index holds an entry for k whose offset holds a Remove
\* command, undecodable bytes or the end of the file, get(k) returns an error:
\* never None, never a value, and it leaves the index and the log as they are.
C15_FailFastRead == [][FailFastGetStep]_vars

\* a get through an entry that points inside a command returned the decode error
C15_Witness ==
  AtRest /\ op = "get" /\ result = ErrDecode
    /\ key \in DOMAIN index /\ ReadAt(logFile, index[key]).op = "Corrupt"

\* C16: a compaction that succeeds after an earlier attempt failed part-way
\* (kvs.comp was left non-empty) leaves the store correct: right after it the
\* log holds exactly one Set command per live key, every index entry points
\* at its key's own command, and get returns every key's current value.
C16_CompactionAfterFailedAttempt ==
  (JustCompacted /\ preTmp # <<>> /\ ~reopened) =>
     /\ Len(logFile) = Cardinality(DOMAIN index)
     /\ \A k \in DOMAIN index : ReadAt(logFile, index[k]) = SetCmd(k, expected[k])
     /\ \A k \in Keys : Lookup(k) = ExpectedGet(k)

\* C17: a successful set(k, v) or remove(k), a set that ran compaction
\* included, does not change what get returns for any other key.
C17_KeyIndependence ==
  (AtRest /\ op \in {"set", "remove"} /\ result = Ok) =>
     \A k2 \in Keys \ {key} : Lookup(k2) = LookupBefore(k2)

RECURSIVE LiveSetSize(_, _)
\* total length of the Set commands carrying the value get returns for the
\* keys ks at the start of the call
LiveSetSize(ks, lookup) ==
  IF ks = {} THEN 0
  ELSE LET k == CHOOSE x \in ks : TRUE
       IN  (IF lookup[k].tag = "Some" THEN EncodedLen(SetCmd(k, lookup[k].val)) ELSE 0)
             + LiveSetSize(ks \ {k}, lookup)

Max(a, b) == IF a >= b THEN a ELSE b

\* C18: right after every successful set the log file is no longer than
\* max(threshold, total length of the Set commands of the keys live before
\* the call) plus the length of the one command just appended.
C18_BoundedLogGrowth ==
  (AtRest /\ op = "set" /\ result = Ok) =>
     FileSize(logFile) <=
        Max(Threshold, LiveSetSize(DOMAIN preIndex, [k \in Keys |-> LookupBefore(k)]))
          + EncodedLen(SetCmd(key, val))

====
